---- MODULE Spec2Model ----
(***************************************************************************)
(* pstruct: the p_struct! procedural macro (src/src/lib.rs) and the types  *)
(* behind it (src/src/types.rs).                                           *)
(*                                                                         *)
(* Two layers are modelled.                                                *)
(*  - Expansion: p_struct parses a struct declaration, fixes its derive    *)
(*    attributes, turns every field's #[offset(..)] attribute into         *)
(*    accessor methods and emits the view type P<name>.                    *)
(*  - The emitted code: a view is one address word; its methods add the    *)
(*    field offset to it and either read_unaligned the field or transmute  *)
(*    the address into a pointer; array fields get a get_<field>(index).   *)
(* Emitted methods are kept as records and interpreted by CallMethod and   *)
(* CallGetter, which follow the quoted token streams line by line.         *)
(***************************************************************************)
EXTENDS Integers, Sequences, FiniteSets, TLC

VARIABLES
    input,    \* the struct declaration handed to p_struct!
    output,   \* what p_struct returned for it (pending until it ran)
    views,    \* the view values (P<name> instances) alive in the user's code
    mem,      \* the bytes of the address space the views point into
    last      \* the last call on a view: what was called and what it returned

vars == <<input, output, views, mem, last>>

(***************************************************************************)
(* Bounds                                                                  *)
(***************************************************************************)
MaxAttrs == 2      \* attributes on the struct
MaxFields == 2     \* fields of a struct handed to the expansion alone
MaxViews == 2      \* views alive at once
AddrBits == 3      \* width of usize in the model

AddrSpace == 2 ^ AddrBits

SeqsUpTo(S, n) == UNION {[1..k -> S] : k \in 0..n}

(***************************************************************************)
(* The macro's input: a struct declaration                                 *)
(***************************************************************************)
Traits == {"Clone", "Copy", "Debug"}

\* #[derive(t1, t2, ..)]
Derive(ts) == [path |-> "derive", list |-> TRUE, traits |-> ts]
\* #[derive] : the path alone, without a parenthesised list
DeriveBare == [path |-> "derive", list |-> FALSE, traits |-> <<>>]
\* an attribute that is not a derive, e.g. #[repr(transparent)], #[doc = ".."]
Plain(p) == [path |-> p, list |-> TRUE, traits |-> <<>>]

StructAttrs ==
    {Derive(ts) : ts \in UNION {[1..k -> Traits] : k \in 0..2}}
        \cup {DeriveBare, Plain("repr"), Plain("doc")}

\* the arguments of #[offset(..)], in the order they are written
Lit(n) == [key |-> "lit", val |-> n]
ArrayArg(n) == [key |-> "array", val |-> n]
ReinterpretArg == [key |-> "reinterpret", val |-> 0]
BogusArg == [key |-> "bogus", val |-> 0]

Offset(args) == [path |-> "offset", args |-> args]
DocAttr == [path |-> "doc", args |-> <<>>]

Field(name, ty, attrs) == [name |-> name, ty |-> ty, attrs |-> attrs]

Struct(shape, generics, attrs, fields) ==
    [shape |-> shape, generics |-> generics, attrs |-> attrs, fields |-> fields]

(***************************************************************************)
(* syn::Error: the message kind and the field it is spanned to (0: the     *)
(* struct itself)                                                          *)
(***************************************************************************)
NoErr == [kind |-> "none", field |-> 0]
Err(kind, field) == [kind |-> kind, field |-> field]

(***************************************************************************)
(* NamedStruct::parse                                                      *)
(***************************************************************************)
parse(item) ==
    IF item.shape # "named" THEN [ok |-> FALSE, err |-> Err("NotNamed", 0)]
    ELSE IF item.generics THEN [ok |-> FALSE, err |-> Err("Generics", 0)]
    ELSE [ok |-> TRUE, err |-> NoErr]

(***************************************************************************)
(* NamedStruct::fix_attrs                                                  *)
(***************************************************************************)
is_derive(attr) == attr.path = "derive"

Has(attrs, t) ==
    \E i \in DOMAIN attrs :
        is_derive(attrs[i]) /\ \E j \in DOMAIN attrs[i].traits : attrs[i].traits[j] = t

\* the list pushed for every derive attribute (types.rs:68-80)
derives(has_copy, has_clone) ==
    (IF has_copy THEN <<"Copy">> ELSE <<>>)
        \o (IF has_clone THEN <<"Clone">> ELSE <<>>)
        \o (IF ~has_copy THEN <<"Copy">> ELSE <<>>)
        \o (IF ~has_clone THEN <<"Clone">> ELSE <<>>)

fix_attrs(attrs) ==
    LET has_derive == \E i \in DOMAIN attrs : is_derive(attrs[i])
        has_copy == Has(attrs, "Copy")
        has_clone == Has(attrs, "Clone")
        \* parse_nested_meta fails on a derive that has no parenthesised list
        meta_err == \E i \in DOMAIN attrs : is_derive(attrs[i]) /\ ~attrs[i].list
    IN  IF meta_err THEN [ok |-> FALSE, attrs |-> attrs]
        ELSE IF has_derive
        THEN [ok |-> TRUE,
              attrs |-> [i \in DOMAIN attrs |->
                            IF is_derive(attrs[i])
                            THEN Derive(derives(has_copy, has_clone))
                            ELSE attrs[i]]]
        ELSE [ok |-> TRUE, attrs |-> Append(attrs, Derive(<<"Clone", "Copy">>))]

(***************************************************************************)
(* OffsetAttr (derived FromAttr): #[offset(<offset>, array(n), reinterpret)]*)
(* Option<usize> is a sequence: <<>> for None, <<n>> for Some(n).          *)
(***************************************************************************)
NoAttr == [offset |-> 0, array |-> <<>>, reinterpret |-> FALSE]

\* the named arguments, after the positional one
named_args(args) == IF Len(args) > 0 /\ args[1].key = "lit" THEN Tail(args) ELSE args

\* from_attribute had the fields not been declared conflicting: both are kept
from_attribute_no_conflict(attr) ==
    LET args == attr.args
        named == named_args(args)
        arrays == {i \in DOMAIN named : named[i].key = "array"}
    IN  IF \E i \in DOMAIN named : named[i].key \notin {"array", "reinterpret"}
        THEN [ok |-> FALSE, err |-> "OffsetParse", attr |-> NoAttr]
        ELSE IF ~(Len(args) > 0 /\ args[1].key = "lit")
        THEN [ok |-> FALSE, err |-> "OffsetParse", attr |-> NoAttr]
        ELSE [ok |-> TRUE, err |-> "none",
              attr |-> [offset |-> args[1].val,
                        array |-> IF arrays = {} THEN <<>>
                                  ELSE <<named[CHOOSE i \in arrays : TRUE].val>>,
                        reinterpret |-> \E i \in DOMAIN named : named[i].key = "reinterpret"]]

\* OffsetAttr::from_attribute: the positional offset first, then the named
\* arguments in any order; array and reinterpret conflict with each other.
from_attribute(attr) ==
    LET args == attr.args
        positional == Len(args) > 0 /\ args[1].key = "lit"
        named == named_args(args)
        unknown == \E i \in DOMAIN named : named[i].key \notin {"array", "reinterpret"}
        twice == \E i, j \in DOMAIN named : i < j /\ named[i].key = named[j].key
        arrays == {i \in DOMAIN named : named[i].key = "array"}
        array == IF arrays = {} THEN <<>> ELSE <<named[CHOOSE i \in arrays : TRUE].val>>
        reinterpret == \E i \in DOMAIN named : named[i].key = "reinterpret"
    IN  IF unknown \/ twice THEN [ok |-> FALSE, err |-> "OffsetParse", attr |-> NoAttr]
        ELSE IF array # <<>> /\ reinterpret
        THEN [ok |-> FALSE, err |-> "Conflict", attr |-> NoAttr]
        ELSE IF ~positional THEN [ok |-> FALSE, err |-> "OffsetParse", attr |-> NoAttr]
        ELSE [ok |-> TRUE, err |-> "none",
              attr |-> [offset |-> args[1].val, array |-> array, reinterpret |-> reinterpret]]

\* OffsetAttr::is_array
is_array(self) == self.array # <<>>

\* is_valid without its check
is_valid_unchecked(self) == TRUE

\* OffsetAttr::is_valid: Ok(()) is TRUE, Err("Array size cannot be 0") is FALSE
is_valid(self) == ~(self.array # <<>> /\ self.array[1] = 0)

\* str::to_lowercase on the field names in use
to_lowercase(name) == IF name = "B" THEN "b" ELSE name

\* OffsetAttr::to_token_stream: the method(s) quoted for one field.
\*   read    which body the field method got: transmute of the address, or
\*           read_unaligned through it
\*   pub     the field method's visibility
\*   getter  whether get_<field>(index) was quoted as well, with its array_size
to_token_stream(self, field_name, field_type) ==
    [name |-> field_name,
     ty |-> field_type,
     offset |-> self.offset,
     read |-> IF self.reinterpret \/ (self.array # <<>> /\ self.array[1] # 0)
              THEN "transmute" ELSE "read_unaligned",
     pub |-> ~is_array(self),
     getter |-> is_array(self),
     getter_name |-> <<"get_", to_lowercase(field_name)>>,
     array_size |-> IF is_array(self) THEN self.array[1] ELSE 0]

(***************************************************************************)
(* p_struct_impl: the loop over the fields (lib.rs:200-226)                *)
(***************************************************************************)
offset_attrs(field) == {j \in DOMAIN field.attrs : field.attrs[j].path = "offset"}

\* .find(|attr| attr.path().is_ident("offset")): the first one
find_offset(field) ==
    CHOOSE j \in offset_attrs(field) : \A k \in offset_attrs(field) : j <= k

\* the loop, had it gone on to the next field after a failure
RECURSIVE fields_loop_skip(_, _, _)
fields_loop_skip(fields, i, methods) ==
    IF i > Len(fields) THEN [ok |-> TRUE, err |-> NoErr, methods |-> methods]
    ELSE IF offset_attrs(fields[i]) = {} THEN fields_loop_skip(fields, i + 1, methods)
    ELSE LET r == from_attribute(fields[i].attrs[find_offset(fields[i])])
         IN  IF ~r.ok \/ ~is_valid(r.attr) THEN fields_loop_skip(fields, i + 1, methods)
             ELSE fields_loop_skip(fields, i + 1,
                      Append(methods,
                             to_token_stream(r.attr, fields[i].name, fields[i].ty)))

\* the loop, had the methods been kept by field name: a later field replaces
\* an earlier one of the same name
RECURSIVE fields_loop_by_name(_, _, _)
fields_loop_by_name(fields, i, methods) ==
    IF i > Len(fields) THEN [ok |-> TRUE, err |-> NoErr, methods |-> methods]
    ELSE IF offset_attrs(fields[i]) = {}
    THEN [ok |-> FALSE, err |-> Err("UnknownAttribute", i), methods |-> <<>>]
    ELSE LET r == from_attribute(fields[i].attrs[find_offset(fields[i])])
             ts == to_token_stream(r.attr, fields[i].name, fields[i].ty)
             same == {k \in DOMAIN methods : methods[k].name = fields[i].name}
         IN  IF ~r.ok THEN [ok |-> FALSE, err |-> Err(r.err, i), methods |-> <<>>]
             ELSE IF ~is_valid(r.attr)
             THEN [ok |-> FALSE, err |-> Err("ArraySizeZero", i), methods |-> <<>>]
             ELSE fields_loop_by_name(fields, i + 1,
                      IF same = {} THEN Append(methods, ts)
                      ELSE [k \in DOMAIN methods |-> IF k \in same THEN ts ELSE methods[k]])

RECURSIVE fields_loop(_, _, _)
fields_loop(fields, i, methods) ==
    IF i > Len(fields) THEN [ok |-> TRUE, err |-> NoErr, methods |-> methods]
    ELSE IF offset_attrs(fields[i]) = {}
    THEN [ok |-> FALSE, err |-> Err("UnknownAttribute", i), methods |-> <<>>]
    ELSE LET r == from_attribute(fields[i].attrs[find_offset(fields[i])])
         IN  IF ~r.ok THEN [ok |-> FALSE, err |-> Err(r.err, i), methods |-> <<>>]
             ELSE IF ~is_valid(r.attr)
             THEN [ok |-> FALSE, err |-> Err("ArraySizeZero", i), methods |-> <<>>]
             ELSE fields_loop(fields, i + 1,
                      Append(methods,
                             to_token_stream(r.attr, fields[i].name, fields[i].ty)))

\* NamedStruct::into_token_stream: the emitted view type
into_token_stream(attrs, methods) ==
    [done |-> TRUE, ok |-> TRUE, err |-> NoErr, attrs |-> attrs, methods |-> methods]

\* e.into_compile_error(): nothing but the error is emitted
into_compile_error(e) ==
    [done |-> TRUE, ok |-> FALSE, err |-> e, attrs |-> <<>>, methods |-> <<>>]

NoTokens == [done |-> FALSE, ok |-> FALSE, err |-> NoErr, attrs |-> <<>>, methods |-> <<>>]

\* p_struct_impl: syn::Result<TokenStream>
p_struct_impl(item) ==
    LET p == parse(item)
        a == fix_attrs(item.attrs)
        l == fields_loop(item.fields, 1, <<>>)
    IN  IF ~p.ok THEN [ok |-> FALSE, e |-> p.err, ts |-> NoTokens]
        ELSE IF ~a.ok THEN [ok |-> FALSE, e |-> Err("DeriveMeta", 0), ts |-> NoTokens]
        ELSE IF ~l.ok THEN [ok |-> FALSE, e |-> l.err, ts |-> NoTokens]
        ELSE [ok |-> TRUE, e |-> NoErr, ts |-> into_token_stream(a.attrs, l.methods)]

(***************************************************************************)
(* The declarations the expansion is run on                                *)
(***************************************************************************)
FieldNames == {"a", "b"}

\* argument lists of #[offset(..)]: plain, array, reinterpret, both modifiers
\* in either order with a zero and a non-zero size, and lists that do not parse
ArgLists ==
    {<<Lit(0)>>, <<Lit(0), ReinterpretArg>>}
        \cup {<<Lit(1), ArrayArg(n)>> : n \in {0, 2}}
        \cup {<<Lit(1), ArrayArg(n), ReinterpretArg>> : n \in {0, 2}}
        \cup {<<Lit(1), ReinterpretArg, ArrayArg(n)>> : n \in {0, 2}}
        \cup {<<>>, <<Lit(0), BogusArg>>}

\* the attributes of a field: none, one #[offset(..)], one after another
\* attribute, two of them
FieldAttrLists ==
    {<<>>}
        \cup {<<Offset(args)>> : args \in ArgLists}
        \cup {<<DocAttr, Offset(<<Lit(1)>>)>>}
        \cup {<<Offset(<<Lit(0)>>), Offset(<<Lit(1), ArrayArg(0)>>)>>}

\* pointer-typed when a modifier is written, an integer otherwise
TypeFor(attrs) ==
    IF \E j \in DOMAIN attrs : Len(attrs[j].args) > 1 THEN "ptr" ELSE "u16"

FieldDecls == {Field(n, TypeFor(al), al) : n \in FieldNames, al \in FieldAttrLists}

BaseFieldLists ==
    {<<>>,
     <<Field("a", "u16", <<Offset(<<Lit(1)>>)>>)>>,
     <<Field("a", "ptr", <<Offset(<<Lit(0), ArrayArg(0)>>)>>)>>}

BaseAttrLists == {<<>>, <<Derive(<<"Debug">>)>>}

BuildInputs ==
    {Struct("named", FALSE, as, fs) :
        as \in SeqsUpTo(StructAttrs, MaxAttrs), fs \in BaseFieldLists}
        \cup {Struct("named", FALSE, as, fs) :
                as \in BaseAttrLists, fs \in SeqsUpTo(FieldDecls, MaxFields)}
        \cup {Struct(sh, g, <<>>, <<>>) : sh \in {"tuple", "unit"}, g \in BOOLEAN}
        \cup {Struct("named", TRUE, as, <<>>) : as \in BaseAttrLists}

(***************************************************************************)
(* The emitted code: impl P<name>                                          *)
(***************************************************************************)
Addrs == 0..(AddrSpace - 1)

\* usize arithmetic
usize_add(a, b) == (a + b) % AddrSpace
usize_mul(a, b) == (a * b) % AddrSpace

\* P<name>(usize, PhantomData): the address word is all a view holds
\* P<name>::new: Self(base.addr(), PhantomData)
new(base) == [word |-> base]

\* From<*mut T>, From<*const T>: a raw pointer is its address
from_mut(value) == new(value)
from_const(value) == new(value)
\* From<&[T]> taking the end of the slice for its start
from_slice_end(value) == [word |-> (value.ptr + value.len) % AddrSpace]

\* From<&[T]>: value.as_ptr(); a slice is [ptr, len]
from_slice(value) == new(value.ptr)

is_null(self) == self.word = 0
addr(self) == self.word

size_of(ty) == IF ty = "u16" THEN 2 ELSE 1

\* core::ptr::read_unaligned(ptr as *const ty): the bytes as the host (little
\* endian) lays the integer out, at any address
RECURSIVE read_unaligned(_, _, _)
read_unaligned(memory, ptr, n) ==
    IF n = 0 THEN 0
    ELSE memory[ptr] + 256 * read_unaligned(memory, usize_add(ptr, 1), n - 1)

Ptr(a) == [tag |-> "ptr", val |-> a]
Val(v) == [tag |-> "val", val |-> v]
None == [tag |-> "None", val |-> 0]
Some(x) == [tag |-> "Some", val |-> x.val]

\* the field method, had it read with ptr::read: at an address aligned for the type
CallMethod_aligned(self, m, memory) ==
    LET ptr_with_addr == usize_add(self.word, m.offset)
    IN  IF m.read = "transmute" THEN Ptr(ptr_with_addr)
        ELSE Val(read_unaligned(memory, ptr_with_addr - (ptr_with_addr % size_of(m.ty)),
                                size_of(m.ty)))

\* the field method, had every mode loaded through the address
CallMethod_loads(self, m, memory) ==
    Val(read_unaligned(memory, usize_add(self.word, m.offset), size_of(m.ty)))

\* unsafe fn <field>(&self) -> <type>  (types.rs:185-198, 231-233)
CallMethod(self, m, memory) ==
    LET ptr_with_addr == usize_add(self.word, m.offset)
    IN  IF m.read = "transmute" THEN Ptr(ptr_with_addr)
        ELSE Val(read_unaligned(memory, ptr_with_addr, size_of(m.ty)))

\* self.<field>(): the method of that name in the impl
method_named(methods, name) ==
    methods[CHOOSE k \in DOMAIN methods : methods[k].name = name]

\* the indexed accessor, had it stepped by one element (a byte) per index
CallGetter_by_element(self, methods, m, index, memory) ==
    IF index >= m.array_size THEN None
    ELSE LET base_array_ptr == CallMethod(self, method_named(methods, m.name), memory).val
         IN  Some(Ptr(usize_add(base_array_ptr, index)))

\* pub unsafe fn get_<field>(&self, index: usize) -> Option<type> (types.rs:209-217)
CallGetter(self, methods, m, index, memory) ==
    IF index >= m.array_size THEN None
    ELSE LET base_array_ptr == CallMethod(self, method_named(methods, m.name), memory).val
             final_addr == usize_add(base_array_ptr, usize_mul(index, m.array_size))
         IN  Some(Ptr(final_addr))

(***************************************************************************)
(* The structs whose emitted code is run                                   *)
(***************************************************************************)
ViewFields ==
    {Field("a", "u16", <<Offset(<<Lit(o)>>)>>) : o \in 0..1}
        \cup {Field("a", "u8", <<Offset(<<Lit(3)>>)>>)}
        \cup {Field("a", "ptr", <<Offset(<<Lit(o), ReinterpretArg>>)>>) : o \in {0, 2}}
        \cup {Field("a", "ptr", <<Offset(<<Lit(0), ArrayArg(n)>>)>>) : n \in {1, 3}}
        \cup {Field("a", "ptr", <<Offset(<<Lit(1), ArrayArg(n)>>)>>) : n \in {2, 3}}

\* the struct of the crate's example, on a small address space
Example ==
    <<Field("a", "u16", <<Offset(<<Lit(1)>>)>>),
      Field("b", "u8", <<Offset(<<Lit(0)>>)>>),
      Field("c", "ptr", <<Offset(<<Lit(3), ReinterpretArg>>)>>),
      Field("d", "ptr", <<Offset(<<Lit(1), ArrayArg(2)>>)>>)>>

ViewInputs ==
    {Struct("named", FALSE, <<>>, <<f>>) : f \in ViewFields}
        \cup {Struct("named", FALSE, <<Derive(<<"Debug">>)>>, Example)}

\* the example's bytes: field_b, then field_a, then field_d ..
InitMem == [a \in Addrs |-> IF a = 0 THEN 69 ELSE IF a < 3 THEN 255 ELSE (10 * (a - 2)) % 256]
\* what the owner of the memory may put there instead
MemImages == {InitMem, [a \in Addrs |-> 255 - InitMem[a]]}

\* the addresses views are made from: null, an odd and an even one, the last
BasePtrs == {0, 1, 2, AddrSpace - 1}

Slices == {[ptr |-> p, len |-> n] : p \in BasePtrs \ {0}, n \in 0..1}

NoCall == [op |-> "none", view |-> 0, method |-> 0, index |-> 0, result |-> None]

(***************************************************************************)
(* The callers' side of the unsafe accessors (lib.rs:81-87): the offsets   *)
(* are valid for the data the view points to and what is read is readable. *)
(***************************************************************************)
InContract(self, m) ==
    IF m.read = "transmute" THEN self.word + m.offset < AddrSpace
    ELSE self.word # 0 /\ self.word + m.offset + size_of(m.ty) <= AddrSpace

GetterInContract(self, m, index) ==
    /\ self.word + m.offset < AddrSpace
    /\ index < m.array_size => self.word + m.offset + index * m.array_size < AddrSpace

(***************************************************************************)
(* Actions                                                                 *)
(***************************************************************************)
Idle == views = <<>> /\ mem = InitMem /\ last = NoCall

\* the expansion alone
Init == input \in BuildInputs /\ output = NoTokens /\ Idle

\* the expansion, then the emitted code at work
InitView == input \in ViewInputs /\ output = NoTokens /\ Idle

\* p_struct!{ .. }: Ok(ts) => ts, Err(e) => e.into_compile_error()
p_struct ==
    /\ ~output.done
    /\ LET r == p_struct_impl(input)
       IN  output' = IF r.ok THEN r.ts ELSE into_compile_error(r.e)
    /\ UNCHANGED <<input, views, mem, last>>

Built == output.done /\ output.ok

Push(v, p) ==
    /\ Built
    /\ Len(views) < MaxViews
    /\ views' = Append(views, [self |-> v, from |-> p])
    /\ last' = NoCall
    /\ UNCHANGED <<input, output, mem>>

\* P<name>::from(p) for p: *mut T
FromMut == \E p \in BasePtrs : Push(from_mut(p), p)

\* P<name>::from(p) for p: *const T
FromConst == \E p \in BasePtrs : Push(from_const(p), p)

\* P<name>::from(s) for s: &[T]
FromSlice == \E s \in Slices : Push(from_slice(s), s.ptr)

\* let copy = view;  (the derived Copy)
Copy == \E i \in DOMAIN views : Push(views[i].self, views[i].from)

Returned(op, i, k, index, result) ==
    /\ last' = [op |-> op, view |-> i, method |-> k, index |-> index, result |-> result]
    /\ UNCHANGED <<input, output, views, mem>>

IsNull ==
    \E i \in DOMAIN views :
        Built /\ Returned("is_null", i, 0, 0, [tag |-> "bool", val |-> is_null(views[i].self)])

Addr ==
    \E i \in DOMAIN views :
        Built /\ Returned("addr", i, 0, 0, [tag |-> "usize", val |-> addr(views[i].self)])

\* view.<field>()
CallField ==
    \E i \in DOMAIN views, k \in DOMAIN output.methods :
        /\ Built
        /\ InContract(views[i].self, output.methods[k])
        /\ Returned("field", i, k, 0, CallMethod(views[i].self, output.methods[k], mem))

\* view.get_<field>(index)
CallIndexed ==
    \E i \in DOMAIN views, k \in DOMAIN output.methods, index \in Addrs :
        /\ Built
        /\ output.methods[k].getter
        /\ GetterInContract(views[i].self, output.methods[k], index)
        /\ Returned("get", i, k, index,
                    CallGetter(views[i].self, output.methods, output.methods[k], index, mem))

\* the owner of the memory rewrites it
Store ==
    \E image \in MemImages :
        /\ Built
        /\ image # mem
        /\ mem' = image
        /\ last' = NoCall
        /\ UNCHANGED <<input, output, views>>

Next == p_struct

NextView ==
    \/ p_struct
    \/ FromMut
    \/ FromConst
    \/ FromSlice
    \/ Copy
    \/ IsNull
    \/ Addr
    \/ CallField
    \/ CallIndexed
    \/ Store

Spec == Init /\ [][Next]_vars

SpecView == InitView /\ [][NextView]_vars

(***************************************************************************)
(* Properties                                                              *)
(*                                                                         *)
(* What a declaration says is read off `input` here, without the macro's   *)
(* own parsing: the field's #[offset(..)] is the first attribute of that   *)
(* name, its offset the leading literal, its modifiers what follows.       *)
(***************************************************************************)
HasOffset(f) == \E j \in DOMAIN f.attrs : f.attrs[j].path = "offset"

ArgsOf(f) ==
    f.attrs[CHOOSE j \in DOMAIN f.attrs :
                /\ f.attrs[j].path = "offset"
                /\ \A k \in 1..(j - 1) : f.attrs[k].path # "offset"].args

WellFormed(args) ==
    /\ Len(args) >= 1
    /\ args[1].key = "lit"
    /\ \A i \in 2..Len(args) : args[i].key \in {"array", "reinterpret"}
    /\ \A i, j \in 2..Len(args) : i # j => args[i].key # args[j].key

Modifiers(f) == {ArgsOf(f)[i].key : i \in 2..Len(ArgsOf(f))}

OffsetOf(f) == ArgsOf(f)[1].val

SizeOf(f) == ArgsOf(f)[CHOOSE i \in 2..Len(ArgsOf(f)) : ArgsOf(f)[i].key = "array"].val

Declares(f, mods) == HasOffset(f) /\ WellFormed(ArgsOf(f)) /\ Modifiers(f) = mods

DirectField(f) == Declares(f, {})
ReinterpretField(f) == Declares(f, {"reinterpret"})
ArrayField(f) == Declares(f, {"array"})
BothModifiers(f) == Declares(f, {"array", "reinterpret"})

\* why a field cannot be built, "none" when it can
Failure(f) ==
    IF ~HasOffset(f) THEN "UnknownAttribute"
    ELSE IF ~WellFormed(ArgsOf(f)) THEN "OffsetParse"
    ELSE IF BothModifiers(f) THEN "Conflict"
    ELSE IF ArrayField(f) /\ SizeOf(f) = 0 THEN "ArraySizeZero"
    ELSE "none"

Failing == {i \in DOMAIN input.fields : Failure(input.fields[i]) # "none"}
FirstFailing == CHOOSE i \in Failing : \A j \in Failing : i <= j

\* the struct itself is accepted: named fields, no generics, derives with lists
StructAccepted ==
    /\ input.shape = "named"
    /\ ~input.generics
    /\ \A i \in DOMAIN input.attrs : input.attrs[i].path = "derive" => input.attrs[i].list

\* the view and the field a call in `last` was made on
LastBase == views[last.view].from
LastField == input.fields[last.method]

C2_DirectRead ==
    (last.op = "field" /\ DirectField(LastField)) =>
        LET a == LastBase + OffsetOf(LastField)
        IN  /\ last.result.tag = "val"
            /\ LastField.ty = "u8" => last.result.val = mem[a]
            /\ LastField.ty = "u16" => last.result.val = mem[a] + 256 * mem[a + 1]

C2_Witness ==
    /\ last.op = "field"
    /\ DirectField(LastField)
    /\ LastField.ty = "u16"
    /\ (LastBase + OffsetOf(LastField)) % 2 = 1
    /\ last.result = Val(mem[LastBase + OffsetOf(LastField)]
                            + 256 * mem[LastBase + OffsetOf(LastField) + 1])
    /\ last.result.val # LastBase + OffsetOf(LastField)

\* C3: a Reinterpret-mode accessor returns the pointer whose address is
\* exactly b + o, whatever bytes the memory holds.
C3_Reinterpret ==
    (last.op = "field" /\ ReinterpretField(LastField)) =>
        last.result = Ptr(LastBase + OffsetOf(LastField))

C3_Witness ==
    /\ last.op = "field"
    /\ ReinterpretField(LastField)
    /\ mem # InitMem
    /\ LastBase # 0
    /\ OffsetOf(LastField) # 0
    /\ last.result = Ptr(LastBase + OffsetOf(LastField))

\* C4: a field that specifies both array and reinterpret never builds, and
\* unless an earlier field failed first the error is the conflict error for
\* that field, whichever modifier is written first and whatever the size is
\* (array(0) included: not the array-size error).
C4_ConflictingModifiers ==
    output.done =>
        \A i \in DOMAIN input.fields :
            BothModifiers(input.fields[i]) =>
                /\ ~output.ok
                /\ output.err.field >= i => output.err = Err("Conflict", i)

C4_Witness ==
    /\ output.done
    /\ Len(input.fields) = 2
    /\ BothModifiers(input.fields[2])
    /\ ArgsOf(input.fields[2]) = <<Lit(1), ReinterpretArg, ArrayArg(0)>>
    /\ output.err = Err("Conflict", 2)

\* C5: a field declared array(0), without reinterpret, never builds: no
\* accessor is emitted and, unless an earlier field failed first, the error is
\* the array-size error for that field; every indexed accessor that is ever
\* emitted has a size above 0.
C5_ArraySizeZero ==
    output.done =>
        /\ \A i \in DOMAIN input.fields :
              (ArrayField(input.fields[i]) /\ SizeOf(input.fields[i]) = 0) =>
                  /\ ~output.ok
                  /\ output.methods = <<>>
                  /\ output.err.field >= i => output.err = Err("ArraySizeZero", i)
        /\ \A k \in DOMAIN output.methods :
              output.methods[k].getter => output.methods[k].array_size > 0

C5_Witness ==
    /\ output.done
    /\ Len(input.fields) = 2
    /\ ArrayField(input.fields[2])
    /\ SizeOf(input.fields[2]) = 0
    /\ output.err = Err("ArraySizeZero", 2)
    /\ output.methods = <<>>

\* C6 as claimed: field names are unique within every built schema (two
\* fields sharing a name make construction fail).
C6_NamesUnique ==
    (output.done /\ output.ok) =>
        \A i, j \in DOMAIN input.fields :
            i # j => input.fields[i].name # input.fields[j].name

\* C6 as the code has it: names are not compared. Whenever the struct is
\* accepted and every field is valid the type is built, shared names or not,
\* with one accessor per declared field in declaration order; and no error is
\* about names.
C6_NamesUnchecked ==
    output.done =>
        /\ (StructAccepted /\ Failing = {}) => output.ok
        /\ output.ok =>
              /\ Len(output.methods) = Len(input.fields)
              /\ \A i \in DOMAIN input.fields :
                    output.methods[i].name = input.fields[i].name
        /\ output.err.kind \in {"none", "NotNamed", "Generics", "DeriveMeta",
                                "UnknownAttribute", "OffsetParse", "Conflict",
                                "ArraySizeZero"}

C6_Witness ==
    /\ output.done
    /\ output.ok
    /\ Len(input.fields) = 2
    /\ input.fields[1].name = input.fields[2].name
    /\ Len(output.methods) = 2
    /\ output.methods[1].name = output.methods[2].name
    /\ output.methods[1] # output.methods[2]

\* C7: construction is all-or-nothing. If any field fails, nothing is built
\* (no type, no accessor, those of earlier valid fields included) and, the
\* struct itself being accepted, the error is that of the first failing field
\* in declaration order; a type is built only when every field is valid.
C7_AllOrNothing ==
    output.done =>
        /\ output.ok => Failing = {}
        /\ Failing # {} =>
              /\ ~output.ok
              /\ output.methods = <<>>
              /\ output.attrs = <<>>
              /\ StructAccepted =>
                    output.err = Err(Failure(input.fields[FirstFailing]), FirstFailing)

C7_Witness ==
    /\ output.done
    /\ Len(input.fields) = 2
    /\ Failure(input.fields[1]) = "none"
    /\ Failure(input.fields[2]) = "UnknownAttribute"
    /\ output.err = Err("UnknownAttribute", 2)
    /\ output.methods = <<>>

\* everything a view lets its holder see, in the memory as it is
Observed(self) ==
    [addr |-> addr(self),
     is_null |-> is_null(self),
     fields |-> [k \in DOMAIN output.methods |-> CallMethod(self, output.methods[k], mem)],
     gets |-> [k \in DOMAIN output.methods |->
                 [i \in Addrs |->
                     IF output.methods[k].getter
                     THEN CallGetter(self, output.methods, output.methods[k], i, mem)
                     ELSE None]]]

\* C8: what a view returns depends on the address it was made from only:
\* views made from the same address, through whichever source or by copying,
\* agree on addr(), on is_null() (true exactly for address 0) and on every
\* accessor and indexed accessor.
C8_AddressOnly ==
    /\ \A i, j \in DOMAIN views :
          views[i].from = views[j].from => Observed(views[i].self) = Observed(views[j].self)
    /\ \A i \in DOMAIN views :
          /\ addr(views[i].self) = views[i].from
          /\ is_null(views[i].self) <=> views[i].from = 0
    /\ last.op = "addr" => last.result.val = LastBase
    /\ last.op = "is_null" => last.result.val = (LastBase = 0)

C8_Witness ==
    /\ Len(views) = 2
    /\ views[1].from = views[2].from
    /\ views[1].from # 0
    /\ last.op = "field"
    /\ last.view = 2
    /\ last.result = CallMethod(views[1].self, output.methods[last.method], mem)

\* how many times trait t is derived by a list of attributes
Derived(attrs, t) ==
    Cardinality({<<i, j>> \in (DOMAIN attrs) \X (1..3) :
                    /\ attrs[i].path = "derive"
                    /\ j \in DOMAIN attrs[i].traits
                    /\ attrs[i].traits[j] = t})

\* C9: whatever attributes the struct has, the built type derives Clone
\* exactly once and Copy exactly once.
C9_CloneCopyOnce ==
    (output.done /\ output.ok) =>
        Derived(output.attrs, "Clone") = 1 /\ Derived(output.attrs, "Copy") = 1

NotDerive(attr) == attr.path # "derive"

\* C10: fix_attrs removes nothing: the attributes that are not derives are
\* kept, in order, and every trait of an existing derive other than Clone and
\* Copy is still derived.
C10_NothingRemoved ==
    (output.done /\ output.ok) =>
        /\ SelectSeq(output.attrs, NotDerive) = SelectSeq(input.attrs, NotDerive)
        /\ \A t \in Traits \ {"Clone", "Copy"} :
              Derived(input.attrs, t) > 0 => Derived(output.attrs, t) > 0

====
